---- MODULE Spec2Model ----
(***************************************************************************)
(* node-monitor: the push channel (WebSocketService: subscriber registry   *)
(* and broadcast loop), the metric adapters it polls, the process          *)
(* lifecycle of app.js, and the TTL cache behind the HTTP routes.          *)
(*                                                                         *)
(* Node runs every handler to its next await without interleaving, so a    *)
(* handler (or the part of an async handler between two awaits) is one     *)
(* action.  Calls into the operating system, the Docker daemon and the ws  *)
(* socket are the environment: their outcome is drawn with \E.             *)
(***************************************************************************)
EXTENDS Integers, Sequences, FiniteSets, TLC

(***************************************************************************)
(* Bounds of the model.                                                    *)
(***************************************************************************)
MaxClients == 3
MaxInflight == 2
MaxTime == 3
MaxRequests == 2
MaxCounter == 3
MaxCpus == 4
MaxBytes == 3
MaxDisks == 2
MaxIds == 4

Clients == 1..MaxClients

(***************************************************************************)
(* Outcome of one call into the OS / the Docker daemon: it returns, it     *)
(* fails, or it never returns.                                             *)
(***************************************************************************)
Outcome == {"ok", "fail", "hang"}

NoMsg == [type |-> "none", system |-> "none", docker |-> "none"]

VARIABLES
    dockerVariant,    \* which DockerMonitor the build carries
    dockerAvailable,  \* DockerMonitor.dockerAvailable, fixed by the constructor
    clients,          \* WebSocketService.clients, a Set in insertion order
    readyState,       \* ws.readyState of each client socket
    metricsInterval,  \* WebSocketService.metricsInterval
    pending,          \* tick callbacks awaiting a Promise.all that will settle
    stuck,            \* tick callbacks awaiting a Promise.all that never settles
    procState,        \* the process: running, closing (server.close called), exited
    out,              \* what the last handler did: calls made, message, recipients
    now,              \* the clock, in seconds
    cache,            \* NodeCache.data: key -> [v, t], t the expiry in ms (0: never)
    lastSet,          \* per key, the last CacheService.set: [v, at, ttl] (history)
    reqPending,       \* /overview requests awaiting getSystemOverview
    res,              \* the last HTTP handler's response
    apiKey,           \* process.env.API_KEY, <<>> when not configured
    lastDocker,       \* what the previous poll of the Docker adapter gave
    resp,             \* the last request under /api and its response
    rawStats,         \* the raw stats the daemon returns for a container
    formatted,        \* what formatContainerStats made of them
    sample,           \* what the OS or the daemon reports: memory, filesystems
    reading,          \* the memory or disk figures the adapter made of it
    requestIds,       \* the req.id of every request so far, in arrival order
    tickClients       \* the registry when the tick in flight began (history)

pushVars == <<dockerVariant, dockerAvailable, clients, readyState,
              metricsInterval, pending, stuck, procState, out>>

cacheVars == <<now, cache, lastSet, reqPending, res>>

httpVars == <<apiKey, lastDocker, resp>>

statVars == <<rawStats, formatted>>

gaugeVars == <<sample, reading>>

idVars == <<requestIds>>

histVars == <<tickClients>>

restVars == <<statVars, gaugeVars, idVars, histVars>>

vars == <<pushVars, cacheVars, httpVars, restVars>>

(***************************************************************************)
(* Helpers on the insertion-ordered Set.                                   *)
(***************************************************************************)
Members(s) == {s[i] : i \in 1..Len(s)}

SetAdd(s, c) == IF c \in Members(s) THEN s ELSE Append(s, c)

SetDelete(s, c) == SelectSeq(s, LAMBDA x : x # c)

Quiet(ev) ==
    [ev |-> ev, calls |-> {}, sys |-> "none", dock |-> "none", msg |-> NoMsg,
     tried |-> <<>>, sent |-> <<>>, removed |-> <<>>, error |-> "none"]

(***************************************************************************)
(* Metric adapters.                                                        *)
(***************************************************************************)
\* SystemMonitor.getSystemOverview: the snapshot, or the error rethrown.
getSystemOverview(o) ==
    CASE o = "ok"   -> "overview"
      [] o = "fail" -> "throw"
      [] o = "hang" -> "hang"

\* DockerMonitor.listContainers, first variant: [] when Docker is not
\* available and [] when the daemon call fails.
listContainersDegrading(avail, o) ==
    IF ~avail THEN "empty"
    ELSE CASE o = "ok"   -> "containers"
           [] o = "fail" -> "empty"
           [] o = "hang" -> "hang"

\* DockerMonitor.listContainers, second variant: the error is rethrown.
listContainersThrowing(o) ==
    CASE o = "ok"   -> "containers"
      [] o = "fail" -> "throw"
      [] o = "hang" -> "hang"

\* The daemon is called unless the first variant found no socket at startup.
DaemonOutcomes(variant, avail) ==
    IF variant = "degrading" /\ ~avail THEN {"none"} ELSE Outcome

listContainers(variant, avail, o) ==
    IF variant = "degrading" THEN listContainersDegrading(avail, o)
    ELSE listContainersThrowing(o)

\* Promise.all of the two adapter promises: rejected as soon as one rejects,
\* pending for ever when none rejects and one never settles.
PromiseAll(a, b) ==
    IF a = "throw" \/ b = "throw" THEN "rejected"
    ELSE IF a = "hang" \/ b = "hang" THEN "pending"
    ELSE "resolved"

(***************************************************************************)
(* WebSocketService.broadcast: Set.prototype.forEach over the registry.    *)
(* rest is what is still to visit; thrower is the client whose send        *)
(* throws (0 for none); acc collects the registry after deletions, the     *)
(* clients send was called on, those it returned for, those deleted.       *)
(***************************************************************************)
RECURSIVE ForEach(_, _, _, _)
ForEach(rest, rs, thrower, acc) ==
    IF rest = <<>> THEN acc
    ELSE LET c == Head(rest) IN
         IF rs[c] = "OPEN"
         THEN IF c = thrower
              THEN [acc EXCEPT !.tried = Append(@, c), !.threw = TRUE]
              ELSE ForEach(Tail(rest), rs, thrower,
                           [acc EXCEPT !.tried = Append(@, c),
                                       !.sent = Append(@, c)])
         ELSE ForEach(Tail(rest), rs, thrower,
                      [acc EXCEPT !.clients = SetDelete(@, c),
                                  !.removed = Append(@, c)])

broadcast(cl, rs, thrower) ==
    ForEach(cl, rs, thrower,
            [clients |-> cl, tried |-> <<>>, sent |-> <<>>,
             removed |-> <<>>, threw |-> FALSE])

(***************************************************************************)
(* The cache: CacheService over NodeCache({stdTTL, checkperiod}).  NodeCache*)
(* keeps key -> {v, t}; t is the expiry in milliseconds, 0 for no expiry.  *)
(* ttl arguments and stdTTL are seconds.                                   *)
(***************************************************************************)
Keys == {"system:overview", "health:test"}

NoEntries == [k \in {} |-> 0]

StdTTL == 30000

OverviewTtl == 30

HealthTtl == 1

Ms(seconds) == seconds * 1000

\* NodeCache._wrap with a ttl argument: the expiry of a value stored at nowMs.
Livetime(ttl, nowMs) == IF ttl = 0 THEN 0 ELSE nowMs + Ms(ttl)

\* NodeCache._wrap without a ttl argument: stdTTL applies.
LivetimeStd(nowMs) == IF StdTTL = 0 THEN 0 ELSE nowMs + Ms(StdTTL)

\* NodeCache._check: an entry is live unless it has an expiry in the past.
Live(data, k, nowMs) ==
    k \in DOMAIN data /\ ~(data[k].t # 0 /\ data[k].t < nowMs)

Put(data, k, e) == [x \in DOMAIN data \cup {k} |-> IF x = k THEN e ELSE data[x]]

Drop(data, ks) == [x \in DOMAIN data \ ks |-> data[x]]

NodeCacheSet(data, k, v, ttl, nowMs) ==
    Put(data, k, [v |-> v, t |-> Livetime(ttl, nowMs)])

\* NodeCache.get: the value of a live entry; an expired entry is deleted and
\* the result is undefined (found = FALSE).
NodeCacheGet(data, k, nowMs) ==
    IF Live(data, k, nowMs)
    THEN [found |-> TRUE, value |-> data[k].v, data |-> data]
    ELSE [found |-> FALSE, value |-> 0, data |-> Drop(data, {k})]

\* NodeCache._checkData, the periodic sweep: every expired entry is deleted.
NodeCacheCheckData(data, nowMs) ==
    Drop(data, {k \in DOMAIN data : ~Live(data, k, nowMs)})

\* A get that never finds anything.
CacheServiceGetMisses(data, k, nowMs) ==
    [found |-> FALSE, value |-> 0, data |-> data]

\* CacheService.get
CacheServiceGet(data, k, nowMs) == NodeCacheGet(data, k, nowMs)

\* A set that does not hand its ttl on to NodeCache: stdTTL applies.
CacheServiceSetDropsTtl(data, k, v, ttl, nowMs) ==
    Put(data, k, [v |-> v, t |-> LivetimeStd(nowMs)])

\* CacheService.set
CacheServiceSet(data, k, v, ttl, nowMs) == NodeCacheSet(data, k, v, ttl, nowMs)

NoData == -1

NoRes == [ev |-> "none", status |-> 0, cached |-> FALSE, calls |-> {},
          data |-> NoData]

\* Without the guard of line 69 every tick would poll.
SkipPollNever(cl) == FALSE

\* Line 69: the tick returns at once when the registry is empty.
SkipPoll(cl) == Len(cl) = 0

\* Without the try/catch the async callback's promise would reject.
OnTickFailureReject == "reject"

\* Lines 71 and 87-89: the try/catch around the poll and the broadcast logs
\* the error; the async callback's promise never rejects.
OnTickFailure == "log"

(***************************************************************************)
(* The HTTP surface: strings are sequences of characters.                  *)
(***************************************************************************)
Bearer == <<"B", "e", "a", "r", "e", "r", " ">>

BearerLen == 7

ConfiguredKey == <<"k", "1">>

\* String.prototype.startsWith
StartsWith(str, prefix) ==
    Len(str) >= Len(prefix) /\ SubSeq(str, 1, Len(prefix)) = prefix

\* String.prototype.substring(n)
Substring(str, n) == SubSeq(str, n + 1, Len(str))

\* The response of a middleware that ends the request.
Reply(stage, status, fields) ==
    [next |-> FALSE, stage |-> stage, status |-> status, fields |-> fields]

PassOn == [next |-> TRUE, stage |-> "auth", status |-> 0, fields |-> {}]

\* An authentication that never compares the token.
authMiddlewareAnyToken(authHeader, key) ==
    IF key = <<>> THEN Reply("auth", 500, {"error"})
    ELSE IF authHeader = <<>> \/ ~StartsWith(authHeader, Bearer)
         THEN Reply("auth", 401, {"error"})
         ELSE PassOn

\* authMiddleware: an absent header and an absent key are the empty string
\* (both are falsy).
authMiddleware(authHeader, key) ==
    IF key = <<>> THEN Reply("auth", 500, {"error"})
    ELSE IF authHeader = <<>> \/ ~StartsWith(authHeader, Bearer)
         THEN Reply("auth", 401, {"error"})
         ELSE IF Substring(authHeader, BearerLen) # key
              THEN Reply("auth", 401, {"error"})
              ELSE PassOn

(***************************************************************************)
(* Errors thrown by the sources.  An error carries what errorHandler reads: *)
(* name, code, status (0: no such property) and the substrings its message *)
(* contains.                                                               *)
(***************************************************************************)
NoErr == [kind |-> "none", name |-> "none", code |-> "none", status |-> 0,
          parts |-> {}]

\* read ECONNRESET: the connection was reset while the source answered.
ConnReset == [kind |-> "reset", name |-> "Error", code |-> "ECONNRESET",
              status |-> 0, parts |-> {}]

\* The call timed out.
TimedOut == [kind |-> "timeout", name |-> "Error", code |-> "ETIMEDOUT",
             status |-> 0, parts |-> {}]

\* connect ECONNREFUSED /var/run/docker.sock: the daemon is not running.
ConnRefused == [kind |-> "refused", name |-> "Error", code |-> "ECONNREFUSED",
                status |-> 0, parts |-> {"docker", "docker.sock"}]

\* connect ENOENT /var/run/docker.sock: the socket is gone.
NoSocket == [kind |-> "nosocket", name |-> "Error", code |-> "ENOENT",
             status |-> 0, parts |-> {"docker", "docker.sock"}]

\* The daemon's answer to an id that names no container: an Error with
\* statusCode 404, no code and no status property.
NoSuchContainer == [kind |-> "nocontainer", name |-> "Error", code |-> "none",
                    status |-> 0, parts |-> {}]

\* A systeminformation call that fails.
SiFailure == [kind |-> "si", name |-> "Error", code |-> "none", status |-> 0,
              parts |-> {}]

TransientErrors == {ConnReset, TimedOut}

SystemErrors == {SiFailure} \cup TransientErrors

DockerErrors == {ConnRefused, NoSocket} \cup TransientErrors

\* String.prototype.includes on the message of an error.
Includes(err, needle) == needle \in err.parts

\* errorHandler (error-handler.js, second listing).
errorHandler(err) ==
    IF err.name = "ValidationError"
    THEN Reply("errorHandler", 400, {"error", "details", "timestamp"})
    ELSE IF err.code = "ENOENT" \/ err.code = "ENOTFOUND"
    THEN Reply("errorHandler", 404, {"error", "timestamp"})
    ELSE IF err.code = "ECONNREFUSED" \/ err.code = "ECONNRESET"
    THEN Reply("errorHandler", 503, {"error", "timestamp"})
    ELSE IF \/ err.name = "Docker error"
            \/ Includes(err, "Docker")
            \/ Includes(err, "docker")
            \/ Includes(err, "Was there a typo in the url or port")
            \/ (err.code = "ENOENT" /\ Includes(err, "docker.sock"))
    THEN Reply("errorHandler", 503, {"error", "message", "timestamp"})
    ELSE Reply("errorHandler", IF err.status # 0 THEN err.status ELSE 500,
               {"error", "message", "stack", "timestamp"})

(***************************************************************************)
(* The other adapter operations.  o is the outcome of the call into the    *)
(* source; the error thrown is the source's error, rethrown as it is.      *)
(***************************************************************************)
\* getCpuMetrics, getMemoryMetrics, getDiskMetrics, getNetworkMetrics: no
\* try/catch, a rejected systeminformation call rejects the operation.
getCpuMetrics(o) == IF o = "ok" THEN "cpu" ELSE "throw"

getMemoryMetrics(o) == IF o = "ok" THEN "memory" ELSE "throw"

getDiskMetrics(o) == IF o = "ok" THEN "disk" ELSE "throw"

getNetworkMetrics(o) == IF o = "ok" THEN "network" ELSE "throw"

\* DockerMonitor.getContainerStats, first listing: zeroed stats when Docker
\* is not available and when the daemon call fails.
getContainerStatsDegrading(avail, o) ==
    IF ~avail THEN "zero"
    ELSE IF o = "ok" THEN "stats" ELSE "zero"

\* DockerMonitor.getContainerStats, second listing: the error is rethrown.
getContainerStatsThrowing(o) == IF o = "ok" THEN "stats" ELSE "throw"

getContainerStats(variant, avail, o) ==
    IF variant = "degrading" THEN getContainerStatsDegrading(avail, o)
    ELSE getContainerStatsThrowing(o)

\* DockerMonitor.getContainerLogs, both listings.
getContainerLogs(variant, avail, o) ==
    IF variant = "degrading"
    THEN IF ~avail THEN "nologs"
         ELSE IF o = "ok" THEN "logs" ELSE "nologs"
    ELSE IF o = "ok" THEN "logs" ELSE "throw"

\* dockerMonitor.dockerAvailable as a route reads it: the second listing of
\* DockerMonitor has no such property (undefined, falsy).
DockerAvailableProperty(variant, avail) == variant = "degrading" /\ avail

\* What a call into the daemon does: the source's error when the source
\* fails, the daemon's 404 when the id names no container, else it answers.
DaemonCall(dock, id, err) ==
    IF dock = "fail" THEN err
    ELSE IF id = "unknown" THEN NoSuchContainer
    ELSE NoErr

\* Whether this DockerMonitor calls the daemon at all.
CallsDaemon(variant, avail) == ~(variant = "degrading" /\ ~avail)

(***************************************************************************)
(* Route handlers under /api.  A handler's result: what it sends, or the   *)
(* error it hands to next(); calls are the adapter operations it called,   *)
(* dockerData what the Docker adapter gave it.                             *)
(***************************************************************************)
NoServices == [system |-> "none", docker |-> "none", cache |-> "none"]

DefaultTail == 100

Sends(data, fields, calls, dockerData, services, tail) ==
    [threw |-> FALSE, err |-> NoErr, status |-> 200, fields |-> fields,
     data |-> data, calls |-> calls, dockerData |-> dockerData,
     services |-> services, tail |-> tail]

Throws(err, calls, dockerData) ==
    [threw |-> TRUE, err |-> err, status |-> 0, fields |-> {},
     data |-> "none", calls |-> calls, dockerData |-> dockerData,
     services |-> NoServices, tail |-> 0]

\* res.json({ success: true, data }) or next(error), after one adapter call.
AdapterRoute(data, err, call, dockerData) ==
    IF data = "throw" THEN Throws(err, {call}, dockerData)
    ELSE Sends(data, {"success", "data"}, {call}, dockerData, NoServices, 0)

CallOutcome(e) == IF e = NoErr THEN "ok" ELSE "fail"

\* parseInt(lines) and, in getContainerLogs, options.lines || 100: a query
\* value that is not a number gives NaN, which is falsy.
TailLines(lines) ==
    CASE lines = "absent" -> DefaultTail
      [] lines = "10"     -> 10
      [] lines = "abc"    -> DefaultTail

\* checkSystemService
checkSystemService(sys) ==
    IF getSystemOverview(sys) = "throw" THEN "unhealthy" ELSE "healthy"

\* checkDockerService (health.js, second listing)
checkDockerService(variant, avail, o) ==
    IF listContainers(variant, avail, o) = "throw" THEN "unhealthy"
    ELSE IF ~DockerAvailableProperty(variant, avail) THEN "unavailable"
    ELSE "healthy"

\* checkCacheService: set('health:test', 'ok', 1), then get.
checkCacheService(data, nowMs) ==
    LET stored == CacheServiceSet(data, "health:test", "ok", HealthTtl, nowMs)
        g      == CacheServiceGet(stored, "health:test", nowMs)
    IN  [status |-> IF g.found /\ g.value = "ok" THEN "healthy" ELSE "unhealthy",
         data   |-> g.data]

\* A health route that counted every status other than 'healthy' as a failure.
HealthRouteStrict(variant, avail, sys, dock, data, nowMs) ==
    LET services == [system |-> checkSystemService(sys),
                     docker |-> checkDockerService(variant, avail, dock),
                     cache  |-> checkCacheService(data, nowMs).status]
        hasUnhealthy == \E k \in DOMAIN services : services[k] # "healthy"
    IN  Sends(IF hasUnhealthy THEN "degraded" ELSE "healthy",
              {"status", "timestamp", "uptime", "version", "services"},
              {"getSystemOverview", "listContainers"},
              listContainers(variant, avail, dock), services, 0)

\* GET /api/health: the three checks, the overall status, res.json(health).
HealthRoute(variant, avail, sys, dock, data, nowMs) ==
    LET services == [system |-> checkSystemService(sys),
                     docker |-> checkDockerService(variant, avail, dock),
                     cache  |-> checkCacheService(data, nowMs).status]
        hasUnhealthy == \E k \in DOMAIN services : services[k] = "unhealthy"
    IN  Sends(IF hasUnhealthy THEN "degraded" ELSE "healthy",
              {"status", "timestamp", "uptime", "version", "services"},
              {"getSystemOverview", "listContainers"},
              listContainers(variant, avail, dock), services, 0)

\* GET /api/docker/status: available is dockerAvailable; the daemon is
\* probed only when it is set.
StatusRoute(variant, avail, dock) ==
    IF ~DockerAvailableProperty(variant, avail)
    THEN Sends("status", {"success", "data"}, {}, "none",
               [NoServices EXCEPT !.docker = "unavailable"], 0)
    ELSE LET d == listContainers(variant, avail, dock) IN
         Sends("status", {"success", "data"}, {"listContainers"}, d,
               [NoServices EXCEPT !.docker = IF d = "throw" THEN "unhealthy"
                                             ELSE "healthy"], 0)

Routes == {"cpu", "memory", "disk", "network", "containers", "stats", "logs",
           "status", "health"}

RouteHandler(route, variant, avail, sys, dock, id, lines, err, data, nowMs) ==
    LET e == DaemonCall(dock, id, err)
        o == CallOutcome(e)
    IN  CASE route = "cpu" ->
               AdapterRoute(getCpuMetrics(sys), err, "getCpuMetrics", "none")
          [] route = "memory" ->
               AdapterRoute(getMemoryMetrics(sys), err, "getMemoryMetrics", "none")
          [] route = "disk" ->
               AdapterRoute(getDiskMetrics(sys), err, "getDiskMetrics", "none")
          [] route = "network" ->
               AdapterRoute(getNetworkMetrics(sys), err, "getNetworkMetrics", "none")
          [] route = "containers" ->
               LET d == listContainers(variant, avail, o) IN
               AdapterRoute(d, e, "listContainers", d)
          [] route = "stats" ->
               LET d == getContainerStats(variant, avail, o) IN
               AdapterRoute(d, e, "getContainerStats", d)
          [] route = "logs" ->
               LET d == getContainerLogs(variant, avail, o)
                   r == AdapterRoute(d, e, "getContainerLogs", d)
               IN  [r EXCEPT !.tail = TailLines(lines)]
          [] route = "status" -> StatusRoute(variant, avail, dock)
          [] route = "health" -> HealthRoute(variant, avail, sys, dock, data, nowMs)

(***************************************************************************)
(* Requests: what the client sends and the state of the sources while the  *)
(* request is served.                                                      *)
(***************************************************************************)
Basic == <<"B", "a", "s", "i", "c", " ">>

Headers ==
    { <<>>,
      Bearer \o ConfiguredKey,
      Bearer \o <<"k", "2">>,
      Bearer \o <<"k">>,
      Bearer \o ConfiguredKey \o <<"x">>,
      Bearer,
      <<"B", "e", "a", "r", "e", "r">> \o ConfiguredKey,
      <<"b", "e", "a", "r", "e", "r", " ">> \o ConfiguredKey,
      Basic \o ConfiguredKey,
      ConfiguredKey }

SysInputs(route) ==
    IF route \in {"cpu", "memory", "disk", "network", "health"}
    THEN {"ok", "fail"} ELSE {"none"}

DockInputs(route) ==
    IF route \in {"containers", "stats", "logs", "status", "health"}
    THEN {"ok", "fail"} ELSE {"none"}

IdInputs(route) ==
    IF route \in {"stats", "logs"} THEN {"known", "unknown"} ELSE {"none"}

LineInputs(route) ==
    IF route = "logs" THEN {"absent", "10", "abc"} ELSE {"absent"}

ErrInputs(route, sys, dock) ==
    IF route \in {"cpu", "memory", "disk", "network"} /\ sys = "fail"
    THEN SystemErrors
    ELSE IF route \in {"containers", "stats", "logs"} /\ dock = "fail"
    THEN DockerErrors
    ELSE {NoErr}

NoResp ==
    [route |-> "none", header |-> <<>>, sys |-> "none", dock |-> "none",
     id |-> "none", lines |-> "absent", err |-> NoErr, stage |-> "none",
     status |-> 0, fields |-> {}, handler |-> FALSE, data |-> "none",
     calls |-> {}, dockerData |-> "none", services |-> NoServices,
     tail |-> 0, prevDocker |-> "none"]

LiveDockerData == {"containers", "stats", "logs"}

(***************************************************************************)
(* DockerMonitor.formatContainerStats.  Raw counters are integers; a       *)
(* number with two decimals is kept as its count of hundredths.            *)
(***************************************************************************)
\* The counter values tried: small ones and those of the documented example.
Counters == 0..MaxCounter \cup {200, 1000}

RawStats ==
    [total_usage : Counters, pre_total_usage : Counters,
     system_cpu_usage : Counters, pre_system_cpu_usage : Counters,
     online_cpus : 1..MaxCpus]

\* The documented example: deltas 200 and 1000, 4 CPUs.
ExampleStats ==
    [total_usage |-> 200, pre_total_usage |-> 0, system_cpu_usage |-> 1000,
     pre_system_cpu_usage |-> 0, online_cpus |-> 4]

\* Math.round(n / d) for d > 0: the nearest integer, halves upwards.
MathRound(n, d) == (2 * n + d) \div (2 * d)

\* A percentage that leaves out the number of CPUs.
CpuUsageSingleCpu(cpuDelta, systemDelta, onlineCpus) ==
    IF systemDelta > 0
    THEN MathRound(cpuDelta * 100 * 100, systemDelta)
    ELSE 0

\* Math.round(cpuUsage * 100), cpuUsage being
\* systemDelta > 0 ? (cpuDelta / systemDelta) * online_cpus * 100 : 0.
CpuUsage(cpuDelta, systemDelta, onlineCpus) ==
    IF systemDelta > 0
    THEN MathRound(cpuDelta * onlineCpus * 100 * 100, systemDelta)
    ELSE 0

formatContainerStats(stats) ==
    LET cpuDelta    == stats.total_usage - stats.pre_total_usage
        systemDelta == stats.system_cpu_usage - stats.pre_system_cpu_usage
    IN  [cpuDelta |-> cpuDelta, systemDelta |-> systemDelta,
         online_cpus |-> stats.online_cpus,
         cpu |-> [usage  |-> CpuUsage(cpuDelta, systemDelta, stats.online_cpus),
                  system |-> systemDelta * 100]]

NoStats ==
    [cpuDelta |-> 0, systemDelta |-> 0, online_cpus |-> 0,
     cpu |-> [usage |-> 0, system |-> 0]]

(***************************************************************************)
(* Memory and disk figures.  A JavaScript value is a record: a number, NaN,*)
(* an infinity (v its sign) or undefined (a field the OS did not report).  *)
(* Percentages are kept in hundredths of a percent, as Math.round(x * 100) *)
(* / 100 keeps two decimals.                                               *)
(***************************************************************************)
JsNumber(n) == [kind |-> "number", v |-> n]
JsNaN == [kind |-> "NaN", v |-> 0]
JsInfinity(sign) == [kind |-> "Infinity", v |-> sign]
JsUndefined == [kind |-> "undefined", v |-> 0]

\* Truthiness: undefined, NaN and 0 are falsy.
Truthy(x) == x.kind = "Infinity" \/ (x.kind = "number" /\ x.v # 0)

\* x || d
JsOr(x, d) == IF Truthy(x) THEN x ELSE d

Sign(n) == IF n < 0 THEN -1 ELSE 1

\* Math.round((used / limit) * 100 * 100), the value before the final / 100.
RoundedPercent(used, limit) ==
    IF used.kind # "number" \/ limit.kind # "number" THEN JsNaN
    ELSE IF limit.v = 0
         THEN IF used.v = 0 THEN JsNaN ELSE JsInfinity(Sign(used.v))
         ELSE IF limit.v > 0
              THEN JsNumber(MathRound(used.v * 100 * 100, limit.v))
              ELSE JsNumber(MathRound((0 - used.v) * 100 * 100, 0 - limit.v))

\* The memory part of formatContainerStats, memory_stats = [usage, limit].
ContainerMemory(memory_stats) ==
    [usage      |-> JsOr(memory_stats.usage, JsNumber(0)),
     limit      |-> JsOr(memory_stats.limit, JsNumber(0)),
     percentage |-> IF Truthy(memory_stats.limit)
                    THEN RoundedPercent(memory_stats.usage, memory_stats.limit)
                    ELSE JsNumber(0)]

\* The memory part of getSystemOverview, mem = [used, total] from si.mem().
OverviewMemory(mem) ==
    [total |-> mem.total, used |-> mem.used,
     usage |-> RoundedPercent(mem.used, mem.total)]

\* The same figure in getMemoryMetrics.
getMemoryUsage(mem) ==
    [total |-> mem.total, used |-> mem.used,
     usage |-> RoundedPercent(mem.used, mem.total)]

\* What the OS or the daemon may report for a byte count.
ByteCounts == {JsUndefined} \cup {JsNumber(n) : n \in 0..MaxBytes}

\* A limit may also come out negative.
ByteLimits == ByteCounts \cup {JsNumber(0 - 1)}

MemorySources == {"container", "overview", "memory"}

NoDisks == <<>>

MemorySamples ==
    [src : MemorySources, used : ByteCounts, limit : ByteLimits,
     disks : {NoDisks}]

NoSample ==
    [src |-> "none", used |-> JsUndefined, limit |-> JsUndefined,
     disks |-> NoDisks]

NoReading == [src |-> "none"]

\* One entry of si.fsSize().
DiskEntries ==
    [mount : {"/", "/data"}, size : {0, 4}, used : {1, 3}, available : {1, 2}]

RECURSIVE SeqsUpTo(_, _)
SeqsUpTo(S, n) ==
    IF n = 0 THEN {<<>>}
    ELSE LET shorter == SeqsUpTo(S, n - 1)
         IN  shorter \cup {Append(q, e) : q \in {r \in shorter : Len(r) = n - 1},
                                          e \in S}

DiskLists == SeqsUpTo(DiskEntries, MaxDisks)

DiskSamples ==
    [src : {"disk"}, used : {JsUndefined}, limit : {JsUndefined},
     disks : DiskLists]

Samples == MemorySamples \cup DiskSamples

\* disks.find(d => d.mount === '/'): the index of the first match, 0 if none.
FindMount(disks, mount) ==
    IF \E i \in 1..Len(disks) : disks[i].mount = mount
    THEN CHOOSE i \in 1..Len(disks) :
             /\ disks[i].mount = mount
             /\ \A j \in 1..(i - 1) : disks[j].mount # mount
    ELSE 0

\* The entry a root that is always the first of the list would give.
RootIndexFirstEntry(disks) == IF Len(disks) > 0 THEN 1 ELSE 0

\* disks.find(d => d.mount === '/') || disks[0], as an index; 0: undefined.
RootIndex(disks) ==
    IF FindMount(disks, "/") # 0 THEN FindMount(disks, "/")
    ELSE IF Len(disks) > 0 THEN 1 ELSE 0

\* root?.size, root?.used, root?.available
RootField(disks, i, f) == IF i = 0 THEN JsUndefined ELSE JsNumber(disks[i][f])

aggregateDiskStats(disks) ==
    LET i    == RootIndex(disks)
        size == RootField(disks, i, "size")
        used == RootField(disks, i, "used")
    IN  [total |-> JsOr(size, JsNumber(0)),
         used  |-> JsOr(used, JsNumber(0)),
         free  |-> JsOr(RootField(disks, i, "available"), JsNumber(0)),
         usage |-> JsOr(RoundedPercent(used, size), JsNumber(0))]

(***************************************************************************)
(* Initial state: app.js has been loaded, websocketService.initialize has  *)
(* armed the timer, nobody is connected.                                   *)
(***************************************************************************)
Boot ==
    /\ dockerVariant \in {"degrading", "throwing"}
    /\ dockerAvailable \in BOOLEAN
    /\ (dockerVariant = "throwing" => dockerAvailable)
    /\ clients = <<>>
    /\ readyState = [c \in Clients |-> "CLOSED"]
    /\ metricsInterval = "armed"
    /\ pending = 0
    /\ stuck = 0
    /\ procState = "running"
    /\ out = Quiet("init")
    /\ now = 0
    /\ cache = NoEntries
    /\ lastSet = NoEntries
    /\ reqPending = 0
    /\ res = NoRes
    /\ lastDocker = "none"
    /\ resp = NoResp
    /\ formatted = NoStats
    /\ reading = NoReading
    /\ requestIds = <<>>
    /\ tickClients = {}

Init ==
    Boot /\ apiKey = ConfiguredKey /\ rawStats = ExampleStats
         /\ sample = NoSample

\* The same start, with or without an API key in the environment.
HttpInit ==
    Boot /\ apiKey \in {<<>>, ConfiguredKey} /\ rawStats = ExampleStats
         /\ sample = NoSample

\* The same start, the daemon returning any of the raw stats.
StatsInit ==
    Boot /\ apiKey = ConfiguredKey /\ rawStats \in RawStats
         /\ sample = NoSample

\* The same start, the OS and the daemon reporting any of the samples.
GaugeInit ==
    Boot /\ apiKey = ConfiguredKey /\ rawStats = ExampleStats
         /\ sample \in Samples

Alive == procState \in {"running", "closing"}

(***************************************************************************)
(* Subscriber events.                                                      *)
(***************************************************************************)
\* A connection handler that also flushed the cache.
ConnectionFlushing(c) ==
    /\ procState = "running"
    /\ readyState[c] = "CLOSED"
    /\ readyState' = [readyState EXCEPT ![c] = "OPEN"]
    /\ clients' = SetAdd(clients, c)
    /\ out' = Quiet("socket")
    /\ cache' = NoEntries
    /\ UNCHANGED <<dockerVariant, dockerAvailable, metricsInterval, pending,
                   stuck, procState, now, lastSet, reqPending, res, httpVars,
                   restVars>>

\* wss.on('connection'): a new socket is added to the registry. A server
\* that server.close() was called on accepts no new connection.
Connection(c) ==
    /\ procState = "running"
    /\ readyState[c] = "CLOSED"
    /\ readyState' = [readyState EXCEPT ![c] = "OPEN"]
    /\ clients' = SetAdd(clients, c)
    /\ out' = Quiet("socket")
    /\ UNCHANGED <<dockerVariant, dockerAvailable, metricsInterval, pending,
                   stuck, procState, cacheVars, httpVars, restVars>>

\* The closing handshake starts: the socket is no longer OPEN, no handler
\* of the service has run yet.
BeginClose(c) ==
    /\ Alive
    /\ readyState[c] = "OPEN"
    /\ readyState' = [readyState EXCEPT ![c] = "CLOSING"]
    /\ out' = Quiet("socket")
    /\ UNCHANGED <<dockerVariant, dockerAvailable, clients, metricsInterval,
                   pending, stuck, procState, cacheVars, httpVars, restVars>>

\* ws.on('close')
CloseEvent(c) ==
    /\ Alive
    /\ readyState[c] # "CLOSED"
    /\ readyState' = [readyState EXCEPT ![c] = "CLOSED"]
    /\ clients' = SetDelete(clients, c)
    /\ out' = Quiet("socket")
    /\ UNCHANGED <<dockerVariant, dockerAvailable, metricsInterval, pending,
                   stuck, procState, cacheVars, httpVars, restVars>>

\* ws.on('error'): ws marks the socket CLOSING before it emits 'error'.
ErrorEvent(c) ==
    /\ Alive
    /\ readyState[c] # "CLOSED"
    /\ c \in Members(clients)
    /\ readyState' = [readyState EXCEPT ![c] = "CLOSING"]
    /\ clients' = SetDelete(clients, c)
    /\ out' = Quiet("socket")
    /\ UNCHANGED <<dockerVariant, dockerAvailable, metricsInterval, pending,
                   stuck, procState, cacheVars, httpVars, restVars>>

(***************************************************************************)
(* The broadcast loop: the setInterval callback up to its await, and its   *)
(* continuation once Promise.all has settled.                              *)
(***************************************************************************)
\* The callback up to its await.
TickBody ==
    /\ Alive
    /\ metricsInterval = "armed"
    /\ pending + stuck < MaxInflight
    /\ IF SkipPoll(clients)
       THEN /\ out' = Quiet("tick")
            /\ UNCHANGED <<pending, stuck>>
       ELSE /\ out' = [Quiet("tick") EXCEPT
                          !.calls = {"getSystemOverview", "listContainers"}]
            /\ \E settles \in BOOLEAN :
                  IF settles
                  THEN pending' = pending + 1 /\ UNCHANGED stuck
                  ELSE stuck' = stuck + 1 /\ UNCHANGED pending
    /\ UNCHANGED <<dockerVariant, dockerAvailable, clients, readyState,
                   metricsInterval, procState, cacheVars, httpVars>>

TimerTick == TickBody /\ UNCHANGED restVars

\* The same callback, the registry it found being remembered; one polling
\* callback is followed at a time.
RecordedTick ==
    /\ pending = 0
    /\ TickBody
    /\ tickClients' = IF SkipPoll(clients) THEN tickClients ELSE Members(clients)
    /\ UNCHANGED <<statVars, gaugeVars, idVars>>

\* A 'message' handler that answered the sender.
ClientMessageEchoes(c) ==
    /\ Alive
    /\ readyState[c] = "OPEN"
    /\ c \in Members(clients)
    /\ out' = [Quiet("message") EXCEPT !.msg.type = "echo", !.tried = <<c>>,
                                       !.sent = <<c>>]
    /\ UNCHANGED <<dockerVariant, dockerAvailable, clients, readyState,
                   metricsInterval, pending, stuck, procState, cacheVars,
                   httpVars, restVars>>

\* A connected client sends a message: the service registers no 'message'
\* listener on the socket, so no code of the service runs.
ClientMessage(c) ==
    /\ Alive
    /\ readyState[c] = "OPEN"
    /\ c \in Members(clients)
    /\ out' = Quiet("message")
    /\ UNCHANGED <<dockerVariant, dockerAvailable, clients, readyState,
                   metricsInterval, pending, stuck, procState, cacheVars,
                   httpVars, restVars>>

\* The clients whose send the environment may make throw in a broadcast over
\* registry cl: an open member, or nobody (0).
Throwers(cl, rs) == {0} \cup {c \in Members(cl) : rs[c] = "OPEN"}

TickResume ==
    /\ Alive
    /\ pending > 0
    /\ pending' = pending - 1
    /\ \E sys \in Outcome, dock \in DaemonOutcomes(dockerVariant, dockerAvailable) :
          LET systemData == getSystemOverview(sys)
              dockerData == listContainers(dockerVariant, dockerAvailable, dock)
              settled    == PromiseAll(systemData, dockerData)
              payload    == [type |-> "metrics_update", system |-> systemData,
                             docker |-> dockerData]
              base       == [Quiet("resume") EXCEPT !.sys = sys, !.dock = dock]
          IN  /\ settled # "pending"
              /\ IF settled = "rejected"
                 THEN /\ out' = [base EXCEPT !.error = "poll"]
                      /\ UNCHANGED clients
                      /\ procState' = IF OnTickFailure = "log"
                                      THEN procState ELSE "exit1"
                 ELSE \E thrower \in Throwers(clients, readyState) :
                      LET b == broadcast(clients, readyState, thrower) IN
                      /\ out' = [base EXCEPT !.msg = payload,
                                             !.tried = b.tried,
                                             !.sent = b.sent,
                                             !.removed = b.removed,
                                             !.error = IF b.threw THEN "send"
                                                       ELSE "none"]
                      /\ clients' = b.clients
                      /\ procState' = IF b.threw /\ OnTickFailure # "log"
                                      THEN "exit1" ELSE procState
    /\ UNCHANGED <<dockerVariant, dockerAvailable, readyState, metricsInterval,
                   stuck, cacheVars, httpVars, restVars>>

(***************************************************************************)
(* Process lifecycle (app.js).                                             *)
(***************************************************************************)
\* process.on('SIGTERM') / process.on('SIGINT'): server.close(callback).
Signal ==
    /\ Alive
    /\ out' = Quiet("signal")
    /\ procState' = "closing"
    /\ UNCHANGED <<dockerVariant, dockerAvailable, clients, readyState,
                   metricsInterval, pending, stuck, cacheVars, httpVars, restVars>>

\* The callback of server.close: runs once every connection of the server,
\* the upgraded sockets included, has ended; process.exit(0).
ServerClosed ==
    /\ procState = "closing"
    /\ \A c \in Clients : readyState[c] = "CLOSED"
    /\ procState' = "exit0"
    /\ pending' = 0
    /\ stuck' = 0
    /\ out' = Quiet("exit")
    /\ UNCHANGED <<dockerVariant, dockerAvailable, clients, readyState,
                   metricsInterval, cacheVars, httpVars, restVars>>

(***************************************************************************)
(* Time, and the handlers that use the cache.                              *)
(***************************************************************************)
Advance ==
    /\ now < MaxTime
    /\ now' = now + 1
    /\ UNCHANGED <<cache, lastSet, reqPending, res, pushVars, httpVars, restVars>>

\* The checkperiod timer of NodeCache.
Sweep ==
    /\ cache' = NodeCacheCheckData(cache, Ms(now))
    /\ cache' # cache
    /\ UNCHANGED <<now, lastSet, reqPending, res, pushVars, httpVars, restVars>>

\* GET /api/system/overview up to the adapter call: a hit answers from the
\* cache, a miss starts the poll.
OverviewRequest ==
    /\ procState = "running"
    /\ LET g == CacheServiceGet(cache, "system:overview", Ms(now)) IN
       /\ cache' = g.data
       /\ IF g.found
          THEN /\ res' = [ev |-> "overview", status |-> 200, cached |-> TRUE,
                          calls |-> {}, data |-> g.value]
               /\ UNCHANGED reqPending
          ELSE /\ reqPending < MaxRequests
               /\ reqPending' = reqPending + 1
               /\ res' = [ev |-> "overview-miss", status |-> 0, cached |-> FALSE,
                          calls |-> {"getSystemOverview"}, data |-> NoData]
    /\ UNCHANGED <<now, lastSet, pushVars, httpVars, restVars>>

\* A handler that stored an empty snapshot when the poll failed.
OverviewPollDoneCachesFailure ==
    /\ procState = "running"
    /\ reqPending > 0
    /\ reqPending' = reqPending - 1
    /\ \E sys \in {"ok", "fail"} :
          IF getSystemOverview(sys) = "throw"
          THEN /\ cache' = CacheServiceSet(cache, "system:overview", NoData,
                                           OverviewTtl, Ms(now))
               /\ res' = [ev |-> "overview", status |-> 500, cached |-> FALSE,
                          calls |-> {}, data |-> NoData]
               /\ UNCHANGED lastSet
          ELSE /\ cache' = CacheServiceSet(cache, "system:overview", now,
                                           OverviewTtl, Ms(now))
               /\ lastSet' = Put(lastSet, "system:overview",
                                 [v |-> now, at |-> now, ttl |-> OverviewTtl])
               /\ res' = [ev |-> "overview", status |-> 200, cached |-> FALSE,
                          calls |-> {}, data |-> now]
    /\ UNCHANGED <<now, pushVars, httpVars, restVars>>

\* The rest of the handler once getSystemOverview has settled: store and
\* answer, or hand the error to next().  The snapshot is identified by the
\* time it was taken.
OverviewPollDone ==
    /\ procState = "running"
    /\ reqPending > 0
    /\ reqPending' = reqPending - 1
    /\ \E sys \in {"ok", "fail"} :
          IF getSystemOverview(sys) = "throw"
          THEN /\ res' = [ev |-> "overview", status |-> 500, cached |-> FALSE,
                          calls |-> {}, data |-> NoData]
               /\ UNCHANGED <<cache, lastSet>>
          ELSE /\ cache' = CacheServiceSet(cache, "system:overview", now,
                                           OverviewTtl, Ms(now))
               /\ lastSet' = Put(lastSet, "system:overview",
                                 [v |-> now, at |-> now, ttl |-> OverviewTtl])
               /\ res' = [ev |-> "overview", status |-> 200, cached |-> FALSE,
                          calls |-> {}, data |-> now]
    /\ UNCHANGED <<now, pushVars, httpVars, restVars>>

\* checkCacheService of the health route: set('health:test', 'ok', 1), get.
CheckCacheService ==
    /\ procState = "running"
    /\ LET stored == CacheServiceSet(cache, "health:test", "ok", HealthTtl, Ms(now))
           g      == CacheServiceGet(stored, "health:test", Ms(now))
       IN /\ cache' = g.data
          /\ lastSet' = Put(lastSet, "health:test",
                            [v |-> "ok", at |-> now, ttl |-> HealthTtl])
          /\ res' = [ev |-> IF g.found /\ g.value = "ok" THEN "cache-healthy"
                            ELSE "cache-unhealthy",
                     status |-> 200, cached |-> FALSE, calls |-> {},
                     data |-> NoData]
    /\ UNCHANGED <<now, reqPending, pushVars, httpVars, restVars>>

(***************************************************************************)
(* A request under /api: rateLimiter, authMiddleware, the route handler,   *)
(* errorHandler.  /api/system/overview is the subject of the cache actions *)
(* above.                                                                  *)
(***************************************************************************)
\* rateLimiter answers by itself once the window's quota is used up.
RateLimited ==
    /\ procState = "running"
    /\ \E route \in Routes :
          resp' = [NoResp EXCEPT !.route = route, !.stage = "rateLimiter",
                                 !.status = 429, !.fields = {"error"}]
    /\ UNCHANGED <<apiKey, lastDocker, cacheVars, pushVars, restVars>>

ApiRequest ==
    /\ procState = "running"
    /\ \E route \in Routes, header \in Headers :
          LET a == authMiddleware(header, apiKey)
              request == [NoResp EXCEPT !.route = route, !.header = header,
                                        !.prevDocker = lastDocker]
          IN  IF ~a.next
              THEN /\ resp' = [request EXCEPT !.stage = a.stage,
                                              !.status = a.status,
                                              !.fields = a.fields]
                   /\ UNCHANGED <<lastDocker, cache, lastSet>>
              ELSE \E sys \in SysInputs(route), dock \in DockInputs(route),
                      id \in IdInputs(route), lines \in LineInputs(route) :
                   \E err \in ErrInputs(route, sys, dock) :
                   LET h == RouteHandler(route, dockerVariant, dockerAvailable,
                                         sys, dock, id, lines, err, cache,
                                         Ms(now))
                       r == IF h.threw THEN errorHandler(h.err)
                            ELSE Reply("handler", h.status, h.fields)
                   IN  /\ resp' = [request EXCEPT !.sys = sys, !.dock = dock,
                                                  !.id = id, !.lines = lines,
                                                  !.err = err,
                                                  !.stage = r.stage,
                                                  !.status = r.status,
                                                  !.fields = r.fields,
                                                  !.handler = TRUE,
                                                  !.data = h.data,
                                                  !.calls = h.calls,
                                                  !.dockerData = h.dockerData,
                                                  !.services = h.services,
                                                  !.tail = h.tail]
                       /\ lastDocker' =
                             IF h.dockerData = "none" THEN lastDocker
                             ELSE IF h.dockerData \in LiveDockerData
                             THEN "live" ELSE "failed"
                       /\ IF route = "health"
                          THEN /\ cache' = checkCacheService(cache, Ms(now)).data
                               /\ lastSet' = Put(lastSet, "health:test",
                                                 [v |-> "ok", at |-> now,
                                                  ttl |-> HealthTtl])
                          ELSE UNCHANGED <<cache, lastSet>>
    /\ UNCHANGED <<apiKey, now, reqPending, res, pushVars, restVars>>

HttpNext ==
    \/ RateLimited
    \/ ApiRequest

HttpSpec == HttpInit /\ [][HttpNext]_vars

(***************************************************************************)
(* getContainerStats formats what the daemon returned.                     *)
(***************************************************************************)
FormatStats ==
    /\ formatted' = formatContainerStats(rawStats)
    /\ UNCHANGED <<rawStats, pushVars, cacheVars, httpVars, gaugeVars, idVars,
                   histVars>>

StatsNext == FormatStats

StatsSpec == StatsInit /\ [][StatsNext]_vars

(***************************************************************************)
(* Request IDs.  The X-Request-ID header of a request is 0 when absent or  *)
(* empty, else the value the client chose; randomUUID() gives a value no   *)
(* earlier call gave.                                                      *)
(***************************************************************************)
HeaderIds == 0..2

Falsy == 0

\* req.get('X-Request-ID') || randomUUID()
requestId(header, uuid) ==
    IF header # Falsy
    THEN [from |-> "header", v |-> header]
    ELSE [from |-> "uuid", v |-> uuid]

\* The middleware, first in the chain of every request: req.id and the
\* X-Request-ID response header get the same value.
requestIdMiddleware ==
    /\ procState = "running"
    /\ Len(requestIds) < MaxIds
    /\ \E header \in HeaderIds :
          requestIds' = Append(requestIds,
                               requestId(header, Len(requestIds) + 1))
    /\ UNCHANGED <<pushVars, cacheVars, httpVars, statVars, gaugeVars,
                   histVars>>

IdNext == requestIdMiddleware

IdSpec == Init /\ [][IdNext]_vars

(***************************************************************************)
(* The adapters turn what the OS and the daemon report into figures.       *)
(***************************************************************************)
FormatMemory ==
    /\ sample.src = "container"
    /\ reading' = [src |-> "container",
                   memory |-> ContainerMemory([usage |-> sample.used,
                                               limit |-> sample.limit])]
    /\ UNCHANGED <<sample, pushVars, cacheVars, httpVars, statVars, idVars,
                   histVars>>

OverviewGauge ==
    /\ sample.src = "overview"
    /\ reading' = [src |-> "overview",
                   memory |-> OverviewMemory([used |-> sample.used,
                                              total |-> sample.limit])]
    /\ UNCHANGED <<sample, pushVars, cacheVars, httpVars, statVars, idVars,
                   histVars>>

MemoryGauge ==
    /\ sample.src = "memory"
    /\ reading' = [src |-> "memory",
                   memory |-> getMemoryUsage([used |-> sample.used,
                                              total |-> sample.limit])]
    /\ UNCHANGED <<sample, pushVars, cacheVars, httpVars, statVars, idVars,
                   histVars>>

DiskGauge ==
    /\ sample.src = "disk"
    /\ reading' = [src |-> "disk", disk |-> aggregateDiskStats(sample.disks)]
    /\ UNCHANGED <<sample, pushVars, cacheVars, httpVars, statVars, idVars,
                   histVars>>

GaugeNext ==
    \/ FormatMemory
    \/ OverviewGauge
    \/ MemoryGauge
    \/ DiskGauge

GaugeSpec == GaugeInit /\ [][GaugeNext]_vars

CacheNext ==
    \/ Advance
    \/ Sweep
    \/ OverviewRequest
    \/ OverviewPollDone
    \/ CheckCacheService

CacheSpec == Init /\ [][CacheNext]_vars

Next ==
    \/ \E c \in Clients : Connection(c)
    \/ \E c \in Clients : BeginClose(c)
    \/ \E c \in Clients : CloseEvent(c)
    \/ \E c \in Clients : ErrorEvent(c)
    \/ TimerTick
    \/ TickResume
    \/ Signal
    \/ ServerClosed

Spec == Init /\ [][Next]_vars

\* A socket that has begun to close ends: 'close' is emitted.
ClosingEnds(c) == readyState[c] = "CLOSING" /\ CloseEvent(c)

\* The timer callback with polls that settle.
SettlingTick == TimerTick /\ stuck' = stuck

\* The process with every poll settling, so that the timer never runs out
\* of callbacks it may start.
LiveNext ==
    \/ \E c \in Clients : Connection(c)
    \/ \E c \in Clients : BeginClose(c)
    \/ \E c \in Clients : CloseEvent(c)
    \/ \E c \in Clients : ErrorEvent(c)
    \/ SettlingTick
    \/ TickResume
    \/ Signal
    \/ ServerClosed

\* What the event loop guarantees: a timer callback that is due runs, a
\* settled promise resumes its callback, a closing socket closes, the
\* callback of server.close runs once the last connection has ended.
\* Nothing obliges an open subscriber to disconnect.
FairSpec ==
    /\ Init
    /\ [][LiveNext]_vars
    /\ WF_vars(SettlingTick)
    /\ WF_vars(TickResume)
    /\ WF_vars(ServerClosed)
    /\ \A c \in Clients : WF_vars(ClosingEnds(c))

(***************************************************************************)
(* Subscribers come and go while the HTTP side fills the cache.            *)
(***************************************************************************)
FrameNext ==
    \/ \E c \in Clients : Connection(c)
    \/ \E c \in Clients : BeginClose(c)
    \/ \E c \in Clients : CloseEvent(c)
    \/ \E c \in Clients : ErrorEvent(c)
    \/ OverviewRequest
    \/ OverviewPollDone

FrameSpec == Init /\ [][FrameNext]_vars

(***************************************************************************)
(* The push channel with clients that send messages; every poll settles.   *)
(***************************************************************************)
MessageNext ==
    \/ \E c \in Clients : Connection(c)
    \/ \E c \in Clients : BeginClose(c)
    \/ \E c \in Clients : CloseEvent(c)
    \/ \E c \in Clients : ErrorEvent(c)
    \/ \E c \in Clients : ClientMessage(c)
    \/ SettlingTick
    \/ TickResume

MessageSpec == Init /\ [][MessageNext]_vars

(***************************************************************************)
(* The push channel, one polling callback at a time being followed from    *)
(* its start to its broadcast.                                             *)
(***************************************************************************)
RecipientsNext ==
    \/ \E c \in Clients : Connection(c)
    \/ \E c \in Clients : BeginClose(c)
    \/ \E c \in Clients : CloseEvent(c)
    \/ \E c \in Clients : ErrorEvent(c)
    \/ RecordedTick
    \/ TickResume

RecipientsSpec == Init /\ [][RecipientsNext]_vars

(***************************************************************************)
(* Properties.                                                             *)
(***************************************************************************)
OpenMembers == {c \in Members(clients) : readyState[c] = "OPEN"}

Occurrences(s, c) == Cardinality({i \in 1..Len(s) : s[i] = c})

\* C1: a tick resumed with a subscriber open, the system poll succeeded and
\* the container poll failed: a metrics_update with the system snapshot and
\* an empty docker section is sent to a subscriber; the tick is not dropped.
C1_DockerFailureStillBroadcasts ==
    (out.ev = "resume" /\ out.sys = "ok" /\ out.dock = "fail" /\ OpenMembers # {})
        => /\ out.msg = [type |-> "metrics_update", system |-> "overview",
                         docker |-> "empty"]
           /\ out.tried # <<>>

\* C2: a tick resumed with a subscriber open and the system poll failed: an
\* envelope is still sent, its docker section filled; the tick is not dropped.
C2_SystemFailureStillBroadcasts ==
    (out.ev = "resume" /\ out.sys = "fail" /\ OpenMembers # {})
        => /\ out.msg.type = "metrics_update"
           /\ out.msg.docker \in {"containers", "empty"}
           /\ out.tried # <<>>

\* C3: no two ticks are in their poll-and-send sequence at the same time:
\* at most one tick callback awaits its (settling) poll.
C3_NoOverlappingTicks == pending <= 1

\* C4: after a broadcast, the subscriber whose send threw is no longer in the
\* registry, every member found not open has been removed, every other open
\* member received the message, and the timer is still armed.
C4_FailedSubscriberRemoved ==
    (out.ev = "resume" /\ out.msg # NoMsg)
        => /\ out.error = "send" => out.tried[Len(out.tried)] \notin Members(clients)
           /\ \A c \in Members(clients) : readyState[c] = "OPEN"
           /\ \A c \in OpenMembers :
                 (out.error = "send" /\ c = out.tried[Len(out.tried)])
                 \/ c \in Members(out.sent)
           /\ metricsInterval = "armed"

\* C5: in a broadcast that removed a member, nothing was sent to a removed
\* member and every member that remains was visited exactly once.
C5_RemovalDuringIteration ==
    (out.ev = "resume" /\ out.removed # <<>>)
        => /\ Members(out.removed) \cap Members(out.sent) = {}
           /\ \A c \in Members(clients) : Occurrences(out.tried, c) = 1

\* C6: a timer tick that finds the registry empty calls no adapter and sends
\* nothing.
C6_EmptyRegistryNoPoll ==
    (out.ev = "tick" /\ clients = <<>>)
        => out.calls = {} /\ out.msg = NoMsg /\ out.sent = <<>>

C6_Witness ==
    /\ out.ev = "tick"
    /\ clients = <<>>
    /\ \E c \in Clients : readyState[c] = "CLOSING"

\* C7: no poll failure and no send failure ends the loop: the process never
\* exits with code 1, and after a tick that logged a failure the process is
\* alive, the timer is armed and the next tick can run.
C7_LoopSurvivesFailures ==
    /\ procState # "exit1"
    /\ out.error # "none" =>
          Alive /\ metricsInterval = "armed" /\ ENABLED TimerTick

C7_Witness ==
    /\ out.ev = "resume"
    /\ out.error = "send"
    /\ pending > 0
    /\ procState = "running"

\* C8: once the shutdown signal has been handled the timer is stopped: no
\* tick starts a poll any more.
C8_ShutdownStopsTimer ==
    procState = "closing" => ~(out.ev = "tick" /\ out.calls # {})

\* C9: nothing blocks for ever: whenever a tick callback awaits an adapter
\* call that never returns, some step of the running process (a timeout)
\* completes that tick.
C9_NoTickBlocksForever ==
    stuck > 0 => ENABLED (Next /\ stuck' < stuck /\ procState' = procState)

\* C10: after set(k, v, ttl) at time at, with no later set of k, get(k)
\* returns v at every time before at + ttl and is absent at every time after
\* at + ttl, whether or not the sweep has reclaimed the entry.
C10_CacheVisibility ==
    \A k \in DOMAIN lastSet :
        LET e == lastSet[k]
            g == CacheServiceGet(cache, k, Ms(now))
        IN  /\ Ms(now) < Ms(e.at + e.ttl) => g.found /\ g.value = e.v
            /\ Ms(now) > Ms(e.at + e.ttl) => ~g.found

\* An entry past its ttl that the sweep has not reclaimed yet.
C10_Witness ==
    \E k \in DOMAIN lastSet :
        /\ Ms(now) > Ms(lastSet[k].at + lastSet[k].ttl)
        /\ k \in DOMAIN cache
        /\ ~CacheServiceGet(cache, k, Ms(now)).found

\* C11: a request to /overview made while the last stored snapshot is within
\* its ttl is answered from the cache: it returns the stored payload, the one
\* the storing request returned, and starts no adapter poll.
C11_SecondRequestFromCache ==
    [][(/\ OverviewRequest
        /\ "system:overview" \in DOMAIN lastSet
        /\ now < lastSet["system:overview"].at + lastSet["system:overview"].ttl)
       => /\ res'.ev = "overview"
          /\ res'.status = 200
          /\ res'.cached
          /\ res'.calls = {}
          /\ res'.data = lastSet["system:overview"].v
          /\ reqPending' = reqPending]_vars

\* A hit at a later time than the request that stored the snapshot.
C11_Witness ==
    /\ res.ev = "overview"
    /\ res.cached
    /\ res.calls = {}
    /\ "system:overview" \in DOMAIN lastSet
    /\ res.data = lastSet["system:overview"].v
    /\ now > lastSet["system:overview"].at

\* C12: a poll of the Docker adapter that follows a failed or unavailable
\* poll and finds the daemon reachable returns live data: no earlier failure
\* is latched.
C12_NoFailureLatch ==
    (/\ resp.handler
     /\ resp.route \in {"containers", "stats"}
     /\ resp.prevDocker = "failed"
     /\ resp.dock = "ok"
     /\ resp.id # "unknown")
        => resp.dockerData \in LiveDockerData

\* C13: a listing/stat request whose source fails is answered by its handler
\* with the adapter's empty or zeroed snapshot: the adapter hands no error to
\* its caller.
C13_AdaptersDegrade ==
    (/\ resp.handler
     /\ resp.route \in {"cpu", "memory", "disk", "network", "containers", "stats"}
     /\ (resp.sys = "fail" \/ resp.dock = "fail"))
        => /\ resp.stage = "handler"
           /\ resp.data \in {"empty", "zero"}

C15_TransientFailureIs503 ==
    (/\ resp.handler
     /\ resp.err \in TransientErrors
     /\ resp.dock = "fail" => CallsDaemon(dockerVariant, dockerAvailable))
        => resp.status = 503

\* C16: a request for the stats or the logs of an id that names no
\* container, or with a lines query that is not a number, the daemon being
\* reachable and asked, is answered with a 4xx status.
C16_ClientErrorIs4xx ==
    (/\ resp.handler
     /\ resp.route \in {"stats", "logs"}
     /\ resp.dock = "ok"
     /\ CallsDaemon(dockerVariant, dockerAvailable)
     /\ (resp.id = "unknown" \/ resp.lines = "abc"))
        => resp.status \in 400..499

\* C17: a health probe made while the Docker daemon is not reachable reports
\* the docker sub-status unavailable.
C17_HealthDockerUnavailable ==
    (resp.handler /\ resp.route = "health" /\ resp.dock = "fail")
        => resp.services.docker = "unavailable"

\* C18: every response a route handler sends carries success, data and
\* timestamp.
C18_SuccessShape ==
    (resp.stage = "handler" /\ resp.status = 200)
        => {"success", "data", "timestamp"} \subseteq resp.fields

\* C19: every error response, of the error handler or of the authentication
\* middleware, carries error and timestamp.
C19_ErrorShape ==
    resp.stage \in {"auth", "errorHandler"}
        => {"error", "timestamp"} \subseteq resp.fields

\* C20: the CPU percentage of a container, in hundredths, is the integer
\* nearest to (cpu delta / system delta) x online CPUs x 100 x 100 when the
\* system delta is positive, and 0 when it is not; deltas 200 and 1000 with
\* 4 CPUs give 80.00.
C20_CpuPercentage ==
    formatted.online_cpus # 0 =>
        LET cd == formatted.cpuDelta
            sd == formatted.systemDelta
            u  == formatted.cpu.usage
            x  == cd * formatted.online_cpus * 100 * 100
        IN  /\ sd > 0 => /\ 2 * x - sd <= 2 * sd * u
                         /\ 2 * sd * u <= 2 * x + sd
            /\ sd <= 0 => u = 0
            /\ (cd = 200 /\ sd = 1000 /\ formatted.online_cpus = 4) => u = 8000

\* The documented example has been formatted.
C20_Witness ==
    /\ formatted.cpuDelta = 200
    /\ formatted.systemDelta = 1000
    /\ formatted.online_cpus = 4
    /\ formatted.cpu.usage = 8000


\* The percentage of a memory reading.
MemoryPercentage ==
    IF reading.src = "container" THEN reading.memory.percentage
    ELSE reading.memory.usage

\* C21: every memory percentage an adapter reports is a number: used / limit
\* x 100 (to two decimals) when the limit is positive, and 0 for a limit
\* that is zero, missing or negative.
C21_MemoryPercentage ==
    reading.src \in MemorySources =>
        /\ MemoryPercentage.kind = "number"
        /\ IF sample.limit.kind = "number" /\ sample.limit.v > 0
           THEN sample.used.kind = "number" =>
                    MemoryPercentage.v =
                        MathRound(sample.used.v * 100 * 100, sample.limit.v)
           ELSE MemoryPercentage.v = 0

\* The reported disk figures are those of the filesystem entry e.
FromEntry(r, e) ==
    /\ r.total = JsNumber(e.size)
    /\ r.used = JsNumber(e.used)
    /\ r.free = JsNumber(e.available)
    /\ (e.size > 0 => r.usage = JsNumber(MathRound(e.used * 100 * 100, e.size)))

\* C22: the root filesystem figures come from an entry mounted at "/"
\* wherever it stands in the list, from the first entry when there is none,
\* and are all 0 for an empty list.
C22_RootFilesystem ==
    reading.src = "disk" =>
        LET d     == sample.disks
            roots == {i \in 1..Len(d) : d[i].mount = "/"}
        IN  IF roots # {}
            THEN \E i \in roots : FromEntry(reading.disk, d[i])
            ELSE IF Len(d) > 0
                 THEN FromEntry(reading.disk, d[1])
                 ELSE reading.disk = [total |-> JsNumber(0), used |-> JsNumber(0),
                                      free |-> JsNumber(0), usage |-> JsNumber(0)]

\* A list whose second entry is "/" and differs from the first has been
\* aggregated, and the figures are those of the second entry.
C22_Witness ==
    /\ reading.src = "disk"
    /\ Len(sample.disks) = 2
    /\ sample.disks[1].mount = "/data"
    /\ sample.disks[2].mount = "/"
    /\ sample.disks[1].used # sample.disks[2].used
    /\ sample.disks[2].size > 0
    /\ reading.disk.used = JsNumber(sample.disks[2].used)

\* A subscriber's connect, close or error event.
SubscriberEvent ==
    \E c \in Clients : Connection(c) \/ CloseEvent(c) \/ ErrorEvent(c)

\* C23: a subscriber's connect, close or error event changes the registry
\* only: the cache contents and the broadcast timer are as before.
C23_SubscriberEventsFrame ==
    [][SubscriberEvent => UNCHANGED <<cache, metricsInterval>>]_vars

\* A subscriber event has just happened while the cache holds a snapshot and
\* the timer is armed.
C23_Witness ==
    /\ out.ev = "socket"
    /\ clients # <<>>
    /\ "system:overview" \in DOMAIN cache
    /\ metricsInterval = "armed"
    /\ res.ev = "overview" /\ res.status = 200

\* C24: a message sent by a connected client (the step that leaves out.ev =
\* "message") changes no server state (registry, sockets, cache, timer,
\* callbacks in flight), starts no poll and makes the server send nothing;
\* whatever a subscriber receives is a metrics_update envelope sent by a
\* timer callback.
C24_NoClientPayloads ==
    /\ [][out'.ev = "message" =>
            /\ UNCHANGED <<clients, readyState, cache, lastSet, metricsInterval,
                           pending, stuck, procState>>
            /\ out'.calls = {}
            /\ out'.tried = <<>>]_vars
    /\ [](out.tried # <<>> => out.ev = "resume" /\ out.msg.type = "metrics_update")

\* A client has just sent a message while connected, a callback in flight.
C24_Witness ==
    /\ out.ev = "message"
    /\ clients # <<>>
    /\ pending = 1

\* The registry when the broadcast of the callback just resumed began.
AtSend == Members(clients) \cup Members(out.removed)

\* C29: the recipients of a callback's message are taken from the registry
\* at send time: a subscriber that joined while the poll was in flight and
\* is open receives the message, one that left during the poll is not sent
\* to, and with a registry that emptied nothing is sent and nothing fails.
C29_RecipientsAtSendTime ==
    (out.ev = "resume" /\ out.msg # NoMsg) =>
        /\ Members(out.sent) \subseteq AtSend
        /\ \A c \in AtSend \ tickClients :
               readyState[c] = "OPEN" => c \in Members(out.sent)
        /\ \A c \in tickClients \ AtSend : c \notin Members(out.tried)
        /\ (AtSend = {} => out.tried = <<>> /\ out.error = "none")

\* C25: any two distinct requests got different request IDs, whether or not
\* the clients supplied an X-Request-ID header.
C25_UniqueRequestIds ==
    \A i, j \in 1..Len(requestIds) :
        i # j => requestIds[i] # requestIds[j]

\* C26: the health report is always sent (200, from the handler); its
\* overall status is 'degraded' exactly when one of the system, docker and
\* cache checks reports 'unhealthy' and 'healthy' otherwise, so a docker
\* check reporting 'unavailable' is in the report and degrades nothing.
C26_HealthOverallStatus ==
    (resp.route = "health" /\ resp.handler) =>
        /\ resp.stage = "handler"
        /\ resp.status = 200
        /\ "services" \in resp.fields
        /\ resp.data \in {"degraded", "healthy"}
        /\ resp.data = "degraded" <=>
               \E k \in {"system", "docker", "cache"} :
                   resp.services[k] = "unhealthy"
        /\ (resp.sys = "fail") = (resp.services.system = "unhealthy")

\* A health request has been answered 'healthy' with docker 'unavailable'.
C26_Witness ==
    /\ resp.route = "health"
    /\ resp.handler
    /\ resp.services.docker = "unavailable"
    /\ resp.services.system = "healthy"
    /\ resp.data = "healthy"

\* C27: an error with code ENOENT whose message mentions docker.sock is
\* answered 503 (Docker service unavailable), not 404.
C27_DockerSocketIs503 ==
    (resp.stage = "errorHandler" /\ resp.err.code = "ENOENT"
     /\ Includes(resp.err, "docker.sock")) =>
        resp.status = 503

\* C28: when the poll of an /overview request fails, the request is answered
\* by the error handler and the cache is left as it was; a request that
\* follows a failed one and finds no live snapshot polls the adapter again;
\* and a snapshot in the cache is always the result of a poll that
\* succeeded.
C28_FailedPollNotCached ==
    /\ [][(res'.ev = "overview" /\ res'.status = 500 /\ reqPending' < reqPending)
            => UNCHANGED <<cache, lastSet>>]_vars
    /\ [][(/\ res.ev = "overview" /\ res.status = 500
            /\ ~CacheServiceGet(cache, "system:overview", Ms(now)).found
            /\ OverviewRequest)
            => /\ res'.ev = "overview-miss"
               /\ res'.calls = {"getSystemOverview"}
               /\ reqPending' = reqPending + 1]_vars
    /\ []("system:overview" \in DOMAIN cache =>
            /\ cache["system:overview"].v # NoData
            /\ "system:overview" \in DOMAIN lastSet
            /\ cache["system:overview"].v = lastSet["system:overview"].v)

\* A poll has just failed, the request was answered 500, nothing is cached.
C28_Witness ==
    /\ res.ev = "overview"
    /\ res.status = 500
    /\ "system:overview" \notin DOMAIN cache
    /\ "system:overview" \notin DOMAIN lastSet

\* C30: once SIGTERM or SIGINT has been received (server.close called) the
\* process eventually exits with code 0, subscribers connected and the
\* timer armed or not.
C30_SignalLeadsToExit == (procState = "closing") ~> (procState = "exit0")
====
